---- MODULE Spec2Model ----
(***************************************************************************)
(* Model of examples/checkout-demo: the /mcp session endpoint of           *)
(* src/server.ts (Express routes, the `transports` registry and the        *)
(* StreamableHTTPServerTransport lifecycle callbacks), the buy_products /  *)
(* list_products tools, getCheckoutSession of src/lib/stripe.ts, and the   *)
(* purchase state of the widget src/widgets/list_products.tsx.             *)
(***************************************************************************)
EXTENDS Integers, Sequences, FiniteSets, TLC

\* ------------------------------------------------------------------ bounds
\* HTTP requests that arrive at /mcp over one run.
MaxRequests == 3

\* Items in one buy_products / getCheckoutSession call.
MaxItems == 3

\* Date.now() is drawn from 0..MaxClock.
MaxClock == 1

\* Property names "0".."MaxIndexKey" are the array-index keys of the model.
MaxIndexKey == 3

\* The widget's quantity of one product stays within 0..MaxQuantity.
MaxQuantity == 2

\* buy_products calls the widget has outstanding at one time.
MaxInFlight == 2

\* Times the widget opens the checkout link over one run.
MaxOpens == 2

\* ------------------------------------------------------------ JS values
\* JavaScript `undefined` (an absent header, a failed Map.get).
Undefined == "<undefined>"

\* JavaScript `null` (a state that holds no string yet).
Null == "<null>"

\* JavaScript truthiness of a `string | null | undefined`: only a non-empty
\* string is truthy.
Truthy(s) == s \notin {Undefined, Null, ""}

\* Map.prototype.get / set / delete on a map kept as a function.
EmptyMap == [k \in {} |-> Undefined]

MapGet(m, k) == IF k \in DOMAIN m THEN m[k] ELSE Undefined

MapSet(m, k, v) == [x \in (DOMAIN m) \cup {k} |-> IF x = k THEN v ELSE m[x]]

MapDelete(m, k) == [x \in (DOMAIN m) \ {k} |-> m[x]]

\* ------------------------------------------------------------ variables
VARIABLES
    transports,     \* server.ts:146  the session registry: session id -> transport
    objs,           \* the StreamableHTTPServerTransport objects created so far
    nObjs,          \* how many were created
    connected,      \* the transport the McpServer is connected to (server.connect)
    issued,         \* the ids sessionIdGenerator has returned, in order
    reqs,           \* the exchanges in flight: request number -> request record
    nReqs,          \* how many requests /mcp has received
    last,           \* the exchange that ended most recently
    registeredAt,   \* history: session id -> transport registered at initialization
    closedIds       \* history: session ids whose onsessionclosed callback has run

sessionVars == <<transports, objs, nObjs, connected, issued, reqs, nReqs, last,
                 registeredAt, closedIds>>

VARIABLES
    stripeKey,      \* process.env.STRIPE_SECRET_KEY
    tcall,          \* the call in progress: what was called, with what, and where it is
    tresult,        \* what the call gave its caller
    ran,            \* history: what the call ran (handler, aggregation, mock synthesis)
    gatewayLog      \* history: the line_items of each stripe.checkout.sessions.create

toolVars == <<stripeKey, tcall, tresult, ran, gatewayLog>>

VARIABLES
    quantities,     \* list_products.tsx:46  useState({}): priceId -> quantity
    status,         \* list_products.tsx:47  the status message, or null
    checkoutUrl,    \* list_products.tsx:48  the checkout link, or null
    isSubmitting,   \* list_products.tsx:49
    pending,        \* the items of each callToolAsync not yet settled
    opened          \* history: the URLs handed to openExternal

widgetVars == <<quantities, status, checkoutUrl, isSubmitting, pending, opened>>

vars == <<sessionVars, toolVars, widgetVars>>

\* ------------------------------------------------------------ the wire
Methods == {"POST", "GET", "DELETE", "PUT"}

\* What a request body is, as far as the transport tells bodies apart.
Bodies == {"initialize", "tools/call"}

\* A token no session was ever given.
BogusToken == "no-such-session"

\* The mcp-session-id values a client can send: none, the empty string, a
\* token never issued, or any id a session was ever given (closed or not).
Tokens == {Undefined, "", BogusToken} \cup {issued[k] : k \in 1..Len(issued)}

\* express: app.all("/mcp") is registered before app.delete("/mcp").
Routes == << [verb |-> "ALL", handler |-> "all"],
             [verb |-> "DELETE", handler |-> "delete"] >>

RouteMatches(route, method) == route.verb = "ALL" \/ route.verb = method

\* express tries the routes in registration order: the first that matches runs,
\* and a later one runs only if the handler calls next() (neither does).
FirstRoute(method) ==
    CHOOSE k \in 1..Len(Routes) :
        /\ RouteMatches(Routes[k], method)
        /\ \A j \in 1..(k - 1) : ~RouteMatches(Routes[j], method)

\* ------------------------------------------------- the transport (SDK)
\* A StreamableHTTPServerTransport as constructed at server.ts:153.
FreshTransport == [initialized |-> FALSE, sessionId |-> Undefined, closed |-> FALSE]

\* The n-th transport object created.
TransportRef(n) == "transport#" \o ToString(n)

\* The transport's check of a request's session header against its own session:
\* not initialized or no header: 400; another session's id: 404.
ValidateSession(o, header) ==
    IF ~o.initialized THEN 400
    ELSE IF header = Undefined THEN 400
    ELSE IF header # o.sessionId THEN 404
    ELSE 200

\* node:crypto randomUUID: the n-th value drawn differs from all before it.
RandomUUID(n) == "uuid-" \o ToString(n)

\* Mutant of SessionIdGenerator: a generator that hands out one fixed id.
SessionIdGenerator_Fixed == RandomUUID(1)

\* sessionIdGenerator: () => randomUUID()
SessionIdGenerator == RandomUUID(Len(issued) + 1)

\* Mutant of OnSessionInitialized: `transport` shared by all handler runs
\* (a module-level variable), so the latest transport constructed is registered.
OnSessionInitialized_Shared(id, t) == MapSet(transports, id, TransportRef(nObjs))

\* onsessioninitialized: (id) => { transports.set(id, transport) }, where
\* `transport` is the object the handler created (t).
OnSessionInitialized(id, t) == MapSet(transports, id, t)

\* Mutant of OnSessionClosed: the callback leaves the registry as it is.
OnSessionClosed_Keeps(id) == transports

\* Mutant of OnSessionClosed: the callback empties the registry.
OnSessionClosed_Clears(id) == EmptyMap

\* onsessionclosed: (id) => { transports.delete(id) }
OnSessionClosed(id) == MapDelete(transports, id)

\* What the model keeps of one exchange.
RequestRecord(method, token, body, known, wasClosed) ==
    [ method    |-> method,
      header    |-> token,
      body      |-> body,
      pc        |-> "received",
      transport |-> Undefined,   \* the handler's `transport` variable
      created   |-> FALSE,       \* the handler constructed a new transport
      known     |-> known,       \* the token was in the registry on arrival
      wasClosed |-> wasClosed,   \* a token whose session had been terminated
      busy      |-> FALSE,       \* the server was connected when connect() was called
      session   |-> Undefined,   \* the session the transport served it under
      tool      |-> FALSE,       \* the message was dispatched to a tool handler
      aborted   |-> FALSE,       \* the client aborted the exchange
      status    |-> 0,           \* the HTTP status written (0: none yet)
      handedTo  |-> "none",      \* what the transport was when handleRequest ran
      outcome   |-> "none" ]

\* A request as express hands it to a route handler.
NewRequest(method, token, body) ==
    RequestRecord(method, token, body,
                  token \in DOMAIN transports,
                  token \in closedIds)

\* No exchange has ended yet.
NoRequest ==
    [RequestRecord("NONE", Undefined, "none", FALSE, FALSE) EXCEPT !.pc = "none"]

\* Request i is now r: still in flight, or ended (and then the last one ended).
Put(i, r) ==
    IF r.pc = "done"
    THEN /\ reqs' = MapDelete(reqs, i)
         /\ last' = r
    ELSE /\ reqs' = MapSet(reqs, i, r)
         /\ last' = last

\* res.status(code).json(...): the exchange is answered.
Respond(i, r, code) ==
    /\ Put(i, [r EXCEPT !.pc = "done", !.status = code])
    /\ UNCHANGED <<transports, objs, connected, issued, registeredAt, closedIds>>

\* What transport t is at the moment a request is handed to it: closed,
\* registered under a session id, just constructed for this request (fresh),
\* or an object the registry no longer holds (removed).
TransportState(r, t) ==
    IF objs[t].closed THEN "closed"
    ELSE IF \E id \in DOMAIN transports : transports[id] = t THEN "registered"
    ELSE IF r.created THEN "fresh"
    ELSE "removed"

\* transport.handleRequest(req, res, req.body): what the transport does with a
\* request handed to it, the lifecycle callbacks of server.ts:154-160 included.
HandleRequest(i, r, t) ==
    LET o == objs[t]
        v == ValidateSession(o, r.header)
        h == [r EXCEPT !.transport = t, !.handedTo = TransportState(r, t)]
    IN
    IF r.method = "POST" /\ r.body = "initialize" THEN
        IF o.initialized THEN Respond(i, h, 400)
        ELSE LET id == SessionIdGenerator IN
             /\ issued' = Append(issued, id)
             /\ objs' = [objs EXCEPT ![t] =
                            [@ EXCEPT !.initialized = TRUE, !.sessionId = id]]
             /\ transports' = OnSessionInitialized(id, t)
             /\ registeredAt' = MapSet(registeredAt, id, t)
             /\ Put(i, [h EXCEPT !.pc = "done", !.status = 200, !.session = id])
             /\ UNCHANGED <<connected, closedIds>>
    ELSE IF r.method \in {"POST", "GET"} THEN
        IF v # 200 THEN Respond(i, h, v)
        ELSE \* a tool call is dispatched, or the GET stream is opened
             /\ Put(i, [h EXCEPT !.pc = "open", !.session = o.sessionId,
                                 !.tool = (r.method = "POST")])
             /\ UNCHANGED <<transports, objs, connected, issued, registeredAt,
                            closedIds>>
    ELSE IF r.method = "DELETE" THEN
        IF v # 200 THEN Respond(i, h, v)
        ELSE /\ transports' = OnSessionClosed(o.sessionId)
             /\ closedIds' = closedIds \cup {o.sessionId}
             /\ objs' = [objs EXCEPT ![t].closed = TRUE]
             /\ connected' = Undefined
             /\ Put(i, [h EXCEPT !.pc = "done", !.status = 200,
                                 !.session = o.sessionId])
             /\ UNCHANGED <<issued, registeredAt>>
    ELSE Respond(i, h, 405)

\* ---------------------------------------------------- the route handlers
\* app.all("/mcp", ...) up to its first suspension: the lookup, and either the
\* construction of a transport and the call of server.connect, the 400, or
\* the hand-over to the session's transport.
AllMcp(i, r) ==
    LET sessionId == r.header
        transport == IF Truthy(sessionId) THEN MapGet(transports, sessionId)
                     ELSE Undefined
    IN
    IF transport = Undefined /\ r.method \in {"POST", "GET"} THEN
        LET t == TransportRef(nObjs + 1) IN
        /\ objs' = MapSet(objs, t, FreshTransport)
        /\ nObjs' = nObjs + 1
        /\ connected' = t
        /\ Put(i, [r EXCEPT !.pc = "connecting", !.transport = t,
                            !.created = TRUE, !.busy = (connected # Undefined)])
        /\ UNCHANGED <<transports, issued, registeredAt, closedIds>>
    ELSE IF transport = Undefined THEN
        /\ Respond(i, r, 400)
        /\ UNCHANGED nObjs
    ELSE
        /\ HandleRequest(i, r, transport)
        /\ UNCHANGED nObjs

\* app.delete("/mcp", ...)
DeleteMcp(i, r) ==
    LET sessionId == r.header
        transport == IF Truthy(sessionId) THEN MapGet(transports, sessionId)
                     ELSE Undefined
    IN
    IF transport # Undefined THEN
        /\ HandleRequest(i, r, transport)
        /\ UNCHANGED nObjs
    ELSE
        /\ Respond(i, r, 404)
        /\ UNCHANGED nObjs

\* ------------------------------------------------------------- actions
\* A request reaches /mcp: express runs the first matching route's handler, up
\* to the handler's first suspension.
Receive ==
    /\ nReqs < MaxRequests
    /\ nReqs' = nReqs + 1
    /\ \E method \in Methods, token \in Tokens, body \in Bodies :
        /\ method # "POST" => body = "tools/call"
        /\ IF Routes[FirstRoute(method)].handler = "all"
           THEN AllMcp(nReqs + 1, NewRequest(method, token, body))
           ELSE DeleteMcp(nReqs + 1, NewRequest(method, token, body))
    /\ UNCHANGED <<toolVars, widgetVars>>

\* `await server.connect(transport)` resolves: server.ts:165-170.
AfterConnect(i) ==
    /\ reqs[i].pc = "connecting"
    /\ IF reqs[i].transport = Undefined
       THEN Respond(i, reqs[i], 400)
       ELSE HandleRequest(i, reqs[i], reqs[i].transport)
    /\ UNCHANGED <<nObjs, nReqs>>
    /\ UNCHANGED <<toolVars, widgetVars>>

\* `await server.connect(transport)` rejects (a server that refuses a second
\* connection): the handler ends without handing the request over.
ConnectRejects(i) ==
    /\ reqs[i].pc = "connecting"
    /\ reqs[i].busy
    /\ Respond(i, reqs[i], 500)
    /\ UNCHANGED <<nObjs, nReqs>>
    /\ UNCHANGED <<toolVars, widgetVars>>

\* The tool handler (or the GET stream) of an open exchange ends, with a result
\* or with a failing tool call.
Complete(i) ==
    /\ reqs[i].pc = "open"
    /\ \E outcome \in {"result", "toolError"} :
        /\ reqs[i].tool \/ outcome = "result"
        /\ Put(i, [reqs[i] EXCEPT !.pc = "done", !.status = 200,
                                  !.outcome = outcome])
    /\ UNCHANGED <<transports, objs, nObjs, connected, issued, nReqs,
                   registeredAt, closedIds>>
    /\ UNCHANGED <<toolVars, widgetVars>>

\* The client aborts an exchange in flight. A handler waiting for connect()
\* still runs on; an open exchange ends.
Abort(i) ==
    /\ ~reqs[i].aborted
    /\ Put(i, [reqs[i] EXCEPT !.aborted = TRUE,
                              !.pc = IF @ = "open" THEN "done" ELSE @])
    /\ UNCHANGED <<transports, objs, nObjs, connected, issued, nReqs,
                   registeredAt, closedIds>>
    /\ UNCHANGED <<toolVars, widgetVars>>

\* =================================================== stripe.ts / the tools
\* ------------------------------------------------------------ numbers
\* A JavaScript number that is a ratio num/den (den > 0): 3/2 is 1.5.
Rat(num, den) == [num |-> num, den |-> den]

\* Math.floor
Floor(q) == q.num \div q.den

\* Number.isInteger (zod's .int())
IsInt(q) == q.num % q.den = 0

\* q >= n (zod's .min(n))
AtLeast(q, n) == q.num >= n * q.den

\* Math.max(a, b) on integers
Max(a, b) == IF a >= b THEN a ELSE b

\* ------------------------------------------------------------ strings
\* String.prototype.startsWith
StartsWith(str, prefix) ==
    Len(str) >= Len(prefix) /\ SubSeq(str, 1, Len(prefix)) = prefix

\* -------------------------------------------------- configuration
\* The values of STRIPE_SECRET_KEY the model starts with: unset, empty, a key
\* of another kind, a test key, a live key.
StripeKeys == {Undefined, "", "pk_test_51Abc", "sk_test_51Abc", "sk_live_51Abc"}

\* Mutant of USE_MOCK: the negation is missing.
USE_MOCK_Inverted == Truthy(stripeKey)

\* server.ts:23  const USE_MOCK = !process.env.STRIPE_SECRET_KEY
USE_MOCK == ~Truthy(stripeKey)

\* stripe.ts:5-7
isValidStripeKey ==
    /\ Truthy(stripeKey)
    /\ StartsWith(stripeKey, "sk_test_") \/ StartsWith(stripeKey, "sk_live_")

\* stripe.ts:9-11  the client, or null
stripe == IF isValidStripeKey THEN "Stripe" ELSE "null"

\* ------------------------------------------------ a JavaScript object
\* A value held by a property: a number, or a string.
JSNumber(n) == [type |-> "number", num |-> n, str |-> ""]

JSString(str) == [type |-> "string", num |-> 0, str |-> str]

JSUndefined == [type |-> "undefined", num |-> 0, str |-> ""]

JSNull == [type |-> "null", num |-> 0, str |-> ""]

\* What `{}` inherits from Object.prototype, each with the string it converts
\* to under `+`: the functions, and the __proto__ accessor (the prototype itself).
ObjectPrototype ==
    [ constructor    |-> "function Object() { [native code] }",
      toString       |-> "function toString() { [native code] }",
      valueOf        |-> "function valueOf() { [native code] }",
      hasOwnProperty |-> "function hasOwnProperty() { [native code] }",
      __proto__      |-> "[object Object]" ]

\* `{}`: no own property. keys holds the own keys in insertion order.
EmptyObject == [keys |-> <<>>, val |-> EmptyMap]

HasOwn(obj, key) == key \in DOMAIN obj.val

\* obj[key]: the own property, else the inherited one, else undefined.
GetProp(obj, key) ==
    IF HasOwn(obj, key) THEN obj.val[key]
    ELSE IF key \in DOMAIN ObjectPrototype
         THEN [type |-> "object", num |-> 0, str |-> ObjectPrototype[key]]
    ELSE JSUndefined

\* obj[key] = v for a number or string v: the __proto__ setter ignores a value
\* that is no object; any other key becomes (or stays) an own property.
SetProp(obj, key, v) ==
    IF key = "__proto__" THEN obj
    ELSE [keys |-> IF HasOwn(obj, key) THEN obj.keys ELSE Append(obj.keys, key),
          val  |-> MapSet(obj.val, key, v)]

\* a ?? 0
OrZero(a) == IF a.type \in {"undefined", "null"} THEN JSNumber(0) ELSE a

\* a + n for a number n: addition of numbers, else string concatenation.
JSPlus(a, n) ==
    IF a.type = "number" THEN JSNumber(a.num + n)
    ELSE JSString(a.str \o ToString(n))

\* A canonical array index ("0", "7", "10"): such keys are listed first, in
\* ascending numeric order.
IsIndexKey(key) == \E n \in 0..MaxIndexKey : ToString(n) = key

IndexOf(key) == CHOOSE n \in 0..MaxIndexKey : ToString(n) = key

\* The keys of seq that are (wantIndex) or are not index keys, in order.
RECURSIVE SelectKeys(_, _)
SelectKeys(seq, wantIndex) ==
    IF seq = <<>> THEN <<>>
    ELSE IF IsIndexKey(Head(seq)) = wantIndex
         THEN <<Head(seq)>> \o SelectKeys(Tail(seq), wantIndex)
         ELSE SelectKeys(Tail(seq), wantIndex)

\* The index keys of a set, ascending.
RECURSIVE SortIndexKeys(_)
SortIndexKeys(keys) ==
    IF keys = {} THEN <<>>
    ELSE LET least == CHOOSE k \in keys :
                          \A other \in keys : IndexOf(k) <= IndexOf(other)
         IN <<least>> \o SortIndexKeys(keys \ {least})

\* OrdinaryOwnPropertyKeys: index keys ascending, then the rest as inserted.
OwnKeys(obj) ==
    LET idx == SelectKeys(obj.keys, TRUE) IN
    SortIndexKeys({idx[k] : k \in 1..Len(idx)}) \o SelectKeys(obj.keys, FALSE)

\* Object.entries(obj)
ObjectEntries(obj) ==
    LET ks == OwnKeys(obj) IN
    [k \in 1..Len(ks) |-> <<ks[k], obj.val[ks[k]]>>]

\* ------------------------------------------------- getCheckoutSession
\* stripe.ts:28  Math.max(1, Math.floor(quantity))
SafeQuantity(quantity) == Max(1, Floor(quantity))

\* stripe.ts:27-31  the reducer
MergeItem(acc, item) ==
    SetProp(acc, item.priceId,
            JSPlus(OrZero(GetProp(acc, item.priceId)), SafeQuantity(item.quantity)))

\* stripe.ts:26-33  items.reduce(..., {})
RECURSIVE Reduce(_, _)
Reduce(acc, items) ==
    IF items = <<>> THEN acc
    ELSE Reduce(MergeItem(acc, Head(items)), Tail(items))

QuantityByPriceId(items) == Reduce(EmptyObject, items)

\* stripe.ts:39-44  line_items
LineItems(items) ==
    LET entries == ObjectEntries(QuantityByPriceId(items)) IN
    [k \in 1..Len(entries) |->
        [price |-> entries[k][1], quantity |-> entries[k][2]]]

\* The checkout sessions the provider may answer with.
Sessions ==
    { [id |-> "cs_test_a1", url |-> "https://checkout.stripe.com/c/pay/cs_test_a1"] }

\* ------------------------------------------------------ buy_products
\* server.ts:86  priceId: z.string()
ValidPriceId(priceId) == priceId # Undefined

\* server.ts:87  quantity: z.number().int().min(1)
ValidQuantity(quantity) == IsInt(quantity) /\ AtLeast(quantity, 1)

\* Mutant of ValidItems: the array's .min(1) is missing.
ValidItems_NoMin(items) ==
    \A k \in 1..Len(items) :
        ValidPriceId(items[k].priceId) /\ ValidQuantity(items[k].quantity)

\* server.ts:83-91  z.array(z.object({...})).min(1)
ValidItems(items) ==
    /\ Len(items) >= 1
    /\ \A k \in 1..Len(items) :
        ValidPriceId(items[k].priceId) /\ ValidQuantity(items[k].quantity)

\* JSON.stringify of a validated quantity, then of the items.
RECURSIVE StringifyItems(_)
StringifyItems(items) ==
    IF items = <<>> THEN ""
    ELSE "{\"priceId\":\"" \o Head(items).priceId \o "\",\"quantity\":"
         \o ToString(Floor(Head(items).quantity)) \o "}"
         \o (IF Tail(items) = <<>> THEN "" ELSE ",")
         \o StringifyItems(Tail(items))

JSONStringify(items) == "[" \o StringifyItems(items) \o "]"

\* encodeURIComponent of one character of a stringified item list: JSON's
\* punctuation is percent-encoded, letters, digits and "_" stand as they are.
EncodeChar(c) ==
    CASE c = "[" -> "%5B" [] c = "]" -> "%5D"
      [] c = "{" -> "%7B" [] c = "}" -> "%7D"
      [] c = "\"" -> "%22" [] c = ":" -> "%3A" [] c = "," -> "%2C"
      [] OTHER -> c

RECURSIVE EncodeURIComponent(_)
EncodeURIComponent(str) ==
    IF Len(str) = 0 THEN ""
    ELSE IF Len(str) = 1 THEN EncodeChar(str)
    ELSE LET half == Len(str) \div 2 IN
         EncodeURIComponent(SubSeq(str, 1, half))
            \o EncodeURIComponent(SubSeq(str, half + 1, Len(str)))

\* server.ts:97
MockUrl(items) ==
    "https://checkout.stripe.com/mock?items="
        \o EncodeURIComponent(JSONStringify(items))

\* server.ts:103
MockSessionId(now) == "cs_mock_" \o ToString(now)

NoResult ==
    [kind |-> "none", isError |-> FALSE, text |-> "", structuredContent |-> EmptyMap]

\* The dispatcher's answer to input that fails the inputSchema.
ValidationError ==
    [kind |-> "validationError", isError |-> TRUE,
     text |-> "Invalid arguments for tool buy_products",
     structuredContent |-> EmptyMap]

\* server.ts:98-106 and 111-119
CheckoutResult(id, url, suffix) ==
    [kind |-> "result", isError |-> FALSE,
     text |-> "[Checkout](" \o url \o ")" \o suffix,
     structuredContent |-> [checkoutSessionId |-> id, checkoutSessionUrl |-> url]]

\* server.ts:122-128
CheckoutFailed ==
    [kind |-> "result", isError |-> TRUE, text |-> "Checkout failed. Try again.",
     structuredContent |-> EmptyMap]

\* stripe.ts:20-22
NotConfigured ==
    [kind |-> "thrown", isError |-> TRUE,
     text |-> "Stripe is not configured. Set STRIPE_SECRET_KEY (sk_test_... or sk_live_...).",
     structuredContent |-> EmptyMap]

Idle == [entry |-> "none", items |-> <<>>, pc |-> "idle"]

NothingRan == [handler |-> 0, aggregate |-> 0, mock |-> 0, threw |-> 0]

\* The handler without its catch block: the error leaves the handler.
Failed_Rethrows(entry, error) == error

\* An error leaving getCheckoutSession or getProducts: caught by the
\* buy_products handler (server.ts:120-129); the list_products handler
\* (server.ts:65-73) has no catch block, and a direct caller has none either.
Failed(entry, error) == IF entry = "buy_products" THEN CheckoutFailed ELSE error

\* getCheckoutSession(items) up to `await stripe.checkout.sessions.create`.
GetCheckoutSession(entry, items) ==
    IF stripe = "null" THEN
        /\ tcall' = [entry |-> entry, items |-> items, pc |-> "returned"]
        /\ tresult' = Failed(entry, NotConfigured)
        /\ ran' = [ran EXCEPT !.handler = IF entry = "buy_products" THEN 1 ELSE 0,
                              !.threw = @ + 1]
        /\ UNCHANGED gatewayLog
    ELSE
        /\ tcall' = [entry |-> entry, items |-> items, pc |-> "awaitGateway"]
        /\ tresult' = NoResult
        /\ ran' = [ran EXCEPT !.handler = IF entry = "buy_products" THEN 1 ELSE 0,
                              !.aggregate = @ + 1]
        /\ gatewayLog' = Append(gatewayLog, LineItems(items))

\* server.ts:95-130  the buy_products handler, up to its first suspension.
BuyProductsHandler(items) ==
    IF USE_MOCK THEN
        \E now \in 0..MaxClock :
            /\ tcall' = [entry |-> "buy_products", items |-> items, pc |-> "returned"]
            /\ tresult' = CheckoutResult(MockSessionId(now), MockUrl(items), " (mock)")
            /\ ran' = [ran EXCEPT !.handler = 1, !.mock = @ + 1]
            /\ UNCHANGED gatewayLog
    ELSE GetCheckoutSession("buy_products", items)

\* The item lists of at most MaxItems items over the given ids and quantities.
ItemLists(priceIds, qs) ==
    UNION { [1..n -> [priceId : priceIds, quantity : qs]] : n \in 0..MaxItems }

\* The quantities the model calls with: 0, 1, 1.5, 2.
Quantities == {Rat(0, 1), Rat(1, 1), Rat(3, 2), Rat(2, 1)}

\* The price ids a buy_products call is made with.
ToolPriceIds == {"", "price_1", "constructor"}

\* The price ids getCheckoutSession is called with.
PriceIds == {"price_1", "price_2", "2", "constructor", "__proto__"}

\* tools/call buy_products: the inputSchema is checked, then the handler runs.
CallBuyProducts ==
    /\ tcall.pc = "idle"
    /\ \E items \in ItemLists(ToolPriceIds, Quantities) :
        IF ValidItems(items)
        THEN BuyProductsHandler(items)
        ELSE /\ tcall' = [entry |-> "buy_products", items |-> items, pc |-> "returned"]
             /\ tresult' = ValidationError
             /\ UNCHANGED <<ran, gatewayLog>>
    /\ UNCHANGED <<stripeKey, sessionVars, widgetVars>>

\* A direct call of the exported getCheckoutSession.
CallGetCheckoutSession ==
    /\ tcall.pc = "idle"
    /\ \E items \in ItemLists(PriceIds, Quantities) :
        GetCheckoutSession("getCheckoutSession", items)
    /\ UNCHANGED <<stripeKey, sessionVars, widgetVars>>

\* stripe.checkout.sessions.create resolves.
GatewayResolves ==
    /\ tcall.pc = "awaitGateway"
    /\ \E session \in Sessions :
        tresult' = IF tcall.entry = "buy_products"
                   THEN CheckoutResult(session.id, session.url, "")
                   ELSE [kind |-> "session", isError |-> FALSE, text |-> "",
                         structuredContent |-> session]
    /\ tcall' = [tcall EXCEPT !.pc = "returned"]
    /\ UNCHANGED <<ran, gatewayLog, stripeKey, sessionVars, widgetVars>>

\* stripe.checkout.sessions.create rejects.
GatewayRejects ==
    /\ tcall.pc = "awaitGateway"
    /\ tresult' = Failed(tcall.entry,
                         [kind |-> "thrown", isError |-> TRUE,
                          text |-> "StripeAPIError", structuredContent |-> EmptyMap])
    /\ tcall' = [tcall EXCEPT !.pc = "returned"]
    /\ ran' = [ran EXCEPT !.threw = @ + 1]
    /\ UNCHANGED <<gatewayLog, stripeKey, sessionVars, widgetVars>>

\* stripe.ts:96-128  the three fixed products.
getMockProducts ==
    << [id |-> "prod_1", priceId |-> "price_1", name |-> "Wilson Basketball",
        price |-> 6499, currency |-> "USD"],
       [id |-> "prod_2", priceId |-> "price_2", name |-> "Nike Soccer Ball",
        price |-> 3999, currency |-> "USD"],
       [id |-> "prod_3", priceId |-> "price_3", name |-> "Tennis Racket",
        price |-> 12999, currency |-> "USD"] >>

\* A provider price: its unit amount is a number or null.
Price(id, unit_amount, currency) ==
    [type |-> "object", id |-> id, unit_amount |-> unit_amount, currency |-> currency]

\* What stripe.products.list can answer: nothing, a product with a price and
\* one without, a product whose price has no unit amount.
Catalogues ==
    { <<>>,
      << [id |-> "prod_A", name |-> "Ball", default_price |-> Price("price_A", JSNumber(1999), "usd")],
         [id |-> "prod_B", name |-> "Net", default_price |-> JSNull] >>,
      << [id |-> "prod_C", name |-> "Bat", default_price |-> Price("price_C", JSNull, "eur")] >> }

\* String.prototype.toUpperCase over the letters of the currencies above.
UpperChar(c) ==
    CASE c = "u" -> "U" [] c = "s" -> "S" [] c = "d" -> "D"
      [] c = "e" -> "E" [] c = "r" -> "R" [] OTHER -> c

ToUpperCase(str) ==
    IF Len(str) = 3
    THEN UpperChar(SubSeq(str, 1, 1)) \o UpperChar(SubSeq(str, 2, 2))
            \o UpperChar(SubSeq(str, 3, 3))
    ELSE str

\* stripe.ts:77-90  products with a default price, formatted.
RECURSIVE FormatProducts(_)
FormatProducts(products) ==
    IF products = <<>> THEN <<>>
    ELSE LET product == Head(products)
             price == product.default_price
         IN  (IF price.type = "null" THEN <<>>
              ELSE << [id |-> product.id, priceId |-> price.id, name |-> product.name,
                       price |-> OrZero(price.unit_amount).num,
                       currency |-> ToUpperCase(price.currency)] >>)
             \o FormatProducts(Tail(products))

\* server.ts:69-72  the result of list_products.
ProductsResult(products) ==
    [kind |-> "result", isError |-> FALSE, text |-> "widgetHtml",
     structuredContent |-> [products |-> products]]

\* getProducts() up to `await stripe.products.list` (stripe.ts:65-75).
GetProducts ==
    IF stripe = "null" THEN
        /\ tcall' = [entry |-> "list_products", items |-> <<>>, pc |-> "returned"]
        /\ tresult' = Failed("list_products", NotConfigured)
        /\ ran' = [ran EXCEPT !.handler = 1, !.threw = @ + 1]
    ELSE
        /\ tcall' = [entry |-> "list_products", items |-> <<>>, pc |-> "awaitProducts"]
        /\ tresult' = NoResult
        /\ ran' = [ran EXCEPT !.handler = 1]

\* tools/call list_products (server.ts:65-73), up to its first suspension.
CallListProducts ==
    /\ tcall.pc = "idle"
    /\ IF USE_MOCK
       THEN /\ tcall' = [entry |-> "list_products", items |-> <<>>, pc |-> "returned"]
            /\ tresult' = ProductsResult(getMockProducts)
            /\ ran' = [ran EXCEPT !.handler = 1, !.mock = @ + 1]
       ELSE GetProducts
    /\ UNCHANGED <<gatewayLog, stripeKey, sessionVars, widgetVars>>

\* stripe.products.list resolves.
ProductsResolve ==
    /\ tcall.pc = "awaitProducts"
    /\ \E products \in Catalogues :
        tresult' = ProductsResult(FormatProducts(products))
    /\ tcall' = [tcall EXCEPT !.pc = "returned"]
    /\ UNCHANGED <<ran, gatewayLog, stripeKey, sessionVars, widgetVars>>

\* stripe.products.list rejects.
ProductsReject ==
    /\ tcall.pc = "awaitProducts"
    /\ tresult' = Failed("list_products",
                         [kind |-> "thrown", isError |-> TRUE,
                          text |-> "StripeAPIError", structuredContent |-> EmptyMap])
    /\ tcall' = [tcall EXCEPT !.pc = "returned"]
    /\ ran' = [ran EXCEPT !.threw = @ + 1]
    /\ UNCHANGED <<gatewayLog, stripeKey, sessionVars, widgetVars>>

\* The caller has its answer; the next call may start.
Return ==
    /\ tcall.pc = "returned"
    /\ tcall' = Idle
    /\ tresult' = NoResult
    /\ ran' = NothingRan
    /\ gatewayLog' = <<>>
    /\ UNCHANGED <<stripeKey, sessionVars, widgetVars>>

ToolsIdle ==
    /\ tcall = Idle
    /\ tresult = NoResult
    /\ ran = NothingRan
    /\ gatewayLog = <<>>

\* ================================================ widgets/list_products.tsx
\* ------------------------------------------------------------ JS values
\* NaN: what Math.max gives for an operand that is not a number.
JSNaN == [type |-> "nan", num |-> 0, str |-> ""]

\* Math.max(0, v)
MathMax0(v) == IF v.type = "number" THEN JSNumber(Max(0, v.num)) ELSE JSNaN

\* v > 0
Positive(v) == v.type = "number" /\ v.num > 0

\* !v
Not(v) ==
    \/ v.type \in {"undefined", "null", "nan"}
    \/ v.type = "number" /\ v.num = 0
    \/ v.type = "string" /\ v.str = ""

\* { ...obj }: the own properties, in the order Object keys are listed.
Spread(obj) == [keys |-> OwnKeys(obj), val |-> obj.val]

\* { [key]: v } in an object literal: an own property, whatever the key.
DefineProp(obj, key, v) ==
    [keys |-> IF HasOwn(obj, key) THEN obj.keys ELSE Append(obj.keys, key),
     val  |-> MapSet(obj.val, key, v)]

\* ------------------------------------------------------------ the state
\* list_products.tsx:41-44  the products of the tool output: the widget is
\* shown the first two fallback products.
Products == SubSeq(getMockProducts, 1, 2)

ProductIds == {Products[k].priceId : k \in 1..Len(Products)}

\* The deltas the widget's buttons pass: list_products.tsx:296 and 307.
Deltas == {-1, 1}

\* list_products.tsx:51-54
canCheckout ==
    \E k \in 1..Len(Products) :
        Positive(OrZero(GetProp(quantities, Products[k].priceId)))

\* Mutant of CheckoutDisabled: the button ignores isSubmitting.
CheckoutDisabled_IgnoresSubmitting == ~Truthy(checkoutUrl) /\ ~canCheckout

\* list_products.tsx:329  disabled={isSubmitting || (!checkoutUrl && !canCheckout)}
CheckoutDisabled == isSubmitting \/ (~Truthy(checkoutUrl) /\ ~canCheckout)

\* list_products.tsx:297  disabled={!quantities[product.priceId]}
MinusDisabled(priceId) == Not(GetProp(quantities, priceId))

\* Mutant of HandleQuantityChange: no Math.max(0, ...).
HandleQuantityChange_NoClamp(prev, priceId, delta) ==
    DefineProp(Spread(prev), priceId, JSPlus(OrZero(GetProp(prev, priceId)), delta))

\* Mutant of HandleQuantityChange: the previous quantities are not spread.
HandleQuantityChange_NoSpread(prev, priceId, delta) ==
    DefineProp(EmptyObject, priceId,
               MathMax0(JSPlus(OrZero(GetProp(prev, priceId)), delta)))

\* list_products.tsx:71-75  the updater given to setQuantities
HandleQuantityChange(prev, priceId, delta) ==
    LET current == OrZero(GetProp(prev, priceId))
        next == MathMax0(JSPlus(current, delta))
    IN  DefineProp(Spread(prev), priceId, next)

\* Mutant of CheckoutItems: the filter is missing.
CheckoutItems_NoFilter(obj) ==
    LET entries == ObjectEntries(obj) IN
    [k \in 1..Len(entries) |-> [priceId |-> entries[k][1], quantity |-> entries[k][2]]]

\* list_products.tsx:84-86  Object.entries(quantities).map(...).filter(...)
CheckoutItems(obj) ==
    LET entries == ObjectEntries(obj)
        items == [k \in 1..Len(entries) |->
                    [priceId |-> entries[k][1], quantity |-> entries[k][2]]]
    IN  SelectSeq(items, LAMBDA item : Positive(item.quantity))

\* The items as buy_products receives them: each quantity as a JSON number.
WireItems(items) ==
    [k \in 1..Len(items) |->
        [priceId |-> items[k].priceId, quantity |-> Rat(items[k].quantity.num, 1)]]

\* What a buy_products call with these items can resolve with: the refusal
\* of the input schema, or the results of the handler's live branch.
ToolResults(items) ==
    IF ValidItems(WireItems(items))
    THEN {CheckoutResult(session.id, session.url, "") : session \in Sessions}
            \cup {CheckoutFailed}
    ELSE {ValidationError}

\* ------------------------------------------------------------ handleCheckout
\* list_products.tsx:79-82
OpenCheckout ==
    /\ Len(opened) < MaxOpens
    /\ opened' = Append(opened, checkoutUrl)
    /\ UNCHANGED <<quantities, status, checkoutUrl, isSubmitting, pending>>

\* list_products.tsx:88-91
NothingSelected ==
    /\ status' = "Select at least one product to continue."
    /\ UNCHANGED <<quantities, checkoutUrl, isSubmitting, pending, opened>>

\* list_products.tsx:93-97  up to `await callToolAsync({ items })`
StartCheckout(items) ==
    /\ Len(pending) < MaxInFlight
    /\ isSubmitting' = TRUE
    /\ status' = Null
    /\ pending' = Append(pending, items)
    /\ UNCHANGED <<quantities, checkoutUrl, opened>>

\* Mutant of HandleCheckout: no early return when the link exists.
HandleCheckout_NoEarlyReturn ==
    LET items == CheckoutItems(quantities) IN
    IF Len(items) = 0 THEN NothingSelected ELSE StartCheckout(items)

\* Mutant of HandleCheckout: no check for an empty selection.
HandleCheckout_NoEmptyCheck ==
    IF Truthy(checkoutUrl) THEN OpenCheckout
    ELSE StartCheckout(CheckoutItems(quantities))

\* list_products.tsx:78-97  handleCheckout up to its suspension
HandleCheckout ==
    IF Truthy(checkoutUrl) THEN OpenCheckout
    ELSE LET items == CheckoutItems(quantities) IN
         IF Len(items) = 0 THEN NothingSelected ELSE StartCheckout(items)

\* pending without its k-th call
Settled(k) == SubSeq(pending, 1, k - 1) \o SubSeq(pending, k + 1, Len(pending))

\* Mutant of Finally: isSubmitting is left as it is.
Finally_Missing(k) ==
    /\ isSubmitting' = isSubmitting
    /\ pending' = Settled(k)

\* list_products.tsx:110-112  finally { setIsSubmitting(false) }
Finally(k) ==
    /\ isSubmitting' = FALSE
    /\ pending' = Settled(k)

\* ------------------------------------------------------------- actions
\* handleQuantityChange(priceId, delta) is called.
Adjust(priceId, delta) ==
    /\ OrZero(GetProp(quantities, priceId)).num + delta <= MaxQuantity
    /\ UNCHANGED <<status, checkoutUrl, isSubmitting, pending, opened>>
    /\ UNCHANGED <<sessionVars, toolVars>>
    /\ quantities' = HandleQuantityChange(quantities, priceId, delta)

\* handleCheckout() is called.
Submit ==
    /\ HandleCheckout
    /\ UNCHANGED <<sessionVars, toolVars>>

\* A click on a product's "+" button (list_products.tsx:304-310).
ClickPlus(priceId) == Adjust(priceId, 1)

\* A click on a product's "-" button (list_products.tsx:293-300).
ClickMinus(priceId) ==
    /\ ~MinusDisabled(priceId)
    /\ Adjust(priceId, -1)

\* A click on the checkout button (list_products.tsx:325-330).
ClickCheckout ==
    /\ ~CheckoutDisabled
    /\ Submit

\* The k-th outstanding callToolAsync resolves: list_products.tsx:97-106, 110-112.
ToolResolves(k) ==
    /\ \E result \in ToolResults(pending[k]) :
        LET url == MapGet(result.structuredContent, "checkoutSessionUrl") IN
        IF Truthy(url)
        THEN /\ checkoutUrl' = url
             /\ status' = "Checkout ready! Click below to complete your purchase."
        ELSE /\ status' = "No checkout URL returned. Please try again."
             /\ UNCHANGED checkoutUrl
    /\ Finally(k)
    /\ UNCHANGED <<quantities, opened>>
    /\ UNCHANGED <<sessionVars, toolVars>>

\* The k-th outstanding callToolAsync rejects: list_products.tsx:107-112.
ToolRejects(k) ==
    /\ status' = "Failed to start checkout. Please try again."
    /\ Finally(k)
    /\ UNCHANGED <<quantities, checkoutUrl, opened>>
    /\ UNCHANGED <<sessionVars, toolVars>>

\* list_products.tsx:46-49  the state of a widget just mounted
WidgetIdle ==
    /\ quantities = EmptyObject
    /\ status = Null
    /\ checkoutUrl = Null
    /\ isSubmitting = FALSE
    /\ pending = <<>>
    /\ opened = <<>>

\* ======================================================= specifications
InitSessions ==
    /\ transports = EmptyMap
    /\ objs = EmptyMap
    /\ nObjs = 0
    /\ connected = Undefined
    /\ issued = <<>>
    /\ reqs = EmptyMap
    /\ nReqs = 0
    /\ last = NoRequest
    /\ registeredAt = EmptyMap
    /\ closedIds = {}

Next ==
    \/ Receive
    \/ \E i \in DOMAIN reqs : AfterConnect(i)
    \/ \E i \in DOMAIN reqs : ConnectRejects(i)
    \/ \E i \in DOMAIN reqs : Complete(i)
    \/ \E i \in DOMAIN reqs : Abort(i)

\* The /mcp endpoint, in mock mode with no tool call modelled in detail.
Init ==
    /\ InitSessions
    /\ stripeKey = Undefined
    /\ ToolsIdle
    /\ WidgetIdle

Spec == Init /\ [][Next]_vars

\* The tools, under every configuration.
InitTools ==
    /\ InitSessions
    /\ stripeKey \in StripeKeys
    /\ ToolsIdle
    /\ WidgetIdle

NextTools ==
    \/ CallBuyProducts
    \/ CallListProducts
    \/ ProductsResolve
    \/ ProductsReject
    \/ GatewayResolves
    \/ GatewayRejects
    \/ Return

SpecTools == InitTools /\ [][NextTools]_vars

\* getCheckoutSession called directly, under every configuration.
NextCheckout ==
    \/ CallGetCheckoutSession
    \/ GatewayResolves
    \/ GatewayRejects
    \/ Return

SpecCheckout == InitTools /\ [][NextCheckout]_vars

\* The widget, with a live server behind it.
InitWidget ==
    /\ InitSessions
    /\ stripeKey = "sk_test_51Abc"
    /\ ToolsIdle
    /\ WidgetIdle

\* An outstanding buy_products call settles.
Settle == \E k \in 1..Len(pending) : ToolResolves(k) \/ ToolRejects(k)

\* The widget as the user drives it: a click reaches its handler only while
\* the button is not disabled.
NextWidget ==
    \/ \E priceId \in ProductIds : ClickPlus(priceId)
    \/ \E priceId \in ProductIds : ClickMinus(priceId)
    \/ ClickCheckout
    \/ \E k \in 1..Len(pending) : ToolResolves(k)
    \/ \E k \in 1..Len(pending) : ToolRejects(k)

SpecWidget == InitWidget /\ [][NextWidget]_vars

\* The same, where every callToolAsync settles in the end.
FairSpecWidget == SpecWidget /\ WF_vars(Settle)

\* The handlers called in any state, whatever the buttons allow.
NextHandlers ==
    \/ \E priceId \in ProductIds, delta \in Deltas : Adjust(priceId, delta)
    \/ Submit
    \/ \E k \in 1..Len(pending) : ToolResolves(k)
    \/ \E k \in 1..Len(pending) : ToolRejects(k)

SpecHandlers == InitWidget /\ [][NextHandlers]_vars

\* ------------------------------------------------------------ the claims
\* Every exchange the model holds: those in flight and the last one ended.
Exchanges == {reqs[i] : i \in DOMAIN reqs} \cup {last}

\* A request that carried a non-empty token the registry did not hold.
UnknownToken(r) == Truthy(r.header) /\ ~r.known /\ r.pc # "none"

\* C1: every POST or GET request carrying a non-empty session token that is not
\* in the registry is answered 400, whatever its body, and no transport is
\* created (hence none connected or registered) for it.
C1_UnknownTokenRejected ==
    \A r \in Exchanges :
        (UnknownToken(r) /\ r.method \in {"POST", "GET"}) =>
            /\ ~r.created
            /\ r.pc # "connecting"
            /\ r.pc = "done" => (r.status = 400 /\ r.session = Undefined)

\* C2: a DELETE request whose session token is absent from the registry (never
\* issued, or already closed) is answered 404; closing a session twice gives a
\* successful close and then a 404.
C2_UnknownDeleteIsNotFound ==
    (last.method = "DELETE" /\ UnknownToken(last)) => last.status = 404

\* C3: a request carrying a token that is in the registry is handled by the
\* transport registered when that session was initialized; no transport is
\* created for it, and all requests with that token go to the same object.
C3_KnownTokenSameTransport ==
    /\ \A r \in Exchanges :
        r.known =>
            /\ ~r.created
            /\ r.transport = registeredAt[r.header]
            /\ objs[r.transport].sessionId = r.header
            /\ r.session \in {Undefined, r.header}
    /\ \A r1, r2 \in Exchanges :
        (r1.known /\ r2.known /\ r1.header = r2.header) =>
            r1.transport = r2.transport

\* C3 witness: two requests carried the same registered token; one is still
\* open on the session's transport, the other has ended.
C3_Witness ==
    \E i \in DOMAIN reqs :
        /\ reqs[i].known /\ reqs[i].pc = "open"
        /\ last.known /\ last.header = reqs[i].header
        /\ last.method = "POST" /\ last.tool

\* C4: each registry key maps to one transport whose own session id is the key,
\* no transport is registered under two keys, and no session id is issued twice.
C4_OneTransportPerSession ==
    /\ \A k \in DOMAIN transports :
        /\ transports[k] \in DOMAIN objs
        /\ objs[transports[k]].sessionId = k
        /\ objs[transports[k]].initialized
    /\ \A k1, k2 \in DOMAIN transports :
        transports[k1] = transports[k2] => k1 = k2
    /\ \A a, b \in 1..Len(issued) : issued[a] = issued[b] => a = b
    /\ \A k \in DOMAIN transports : \E a \in 1..Len(issued) : issued[a] = k
    /\ Cardinality(DOMAIN transports) + Cardinality(closedIds) = Len(issued)

\* C4 witness: two session-creating requests were in flight at once and were
\* initialized in the opposite order of their transports' construction.
C4_Witness ==
    /\ Cardinality(DOMAIN transports) = 2
    /\ \E k1, k2 \in DOMAIN transports :
        /\ transports[k1] = TransportRef(1) /\ k1 = RandomUUID(2)
        /\ transports[k2] = TransportRef(2) /\ k2 = RandomUUID(1)

\* C5: once a termination request for a registered id has been processed, the
\* id is out of the registry for good, and no later request carrying it is
\* dispatched to a tool handler or served under that id.
C5_ClosedIsTerminal ==
    /\ \A id \in closedIds : id \notin DOMAIN transports
    /\ (last.method = "DELETE" /\ last.status = 200) =>
            (last.session = last.header /\ last.session \in closedIds)
    /\ \A r \in Exchanges :
        r.wasClosed => (~r.known /\ ~r.tool /\ r.pc # "open"
                        /\ r.session # r.header)

\* C5 witness: a session was closed and a later tool call carrying its id has
\* been answered.
C5_Witness ==
    /\ last.wasClosed /\ last.pc = "done"
    /\ last.method = "POST" /\ last.body = "tools/call"
    /\ last.header \in closedIds

\* C6: a registry entry goes away only in the step that processes a DELETE for
\* that very id; in every other step (an abort, a failing tool call, a rejected
\* request, a request of another session) it stays, mapped as before.
C6_RemovedOnlyByTermination ==
    [][\A id \in DOMAIN transports :
          \/ id \in DOMAIN transports' /\ transports'[id] = transports[id]
          \/ /\ id \notin DOMAIN transports'
             /\ nReqs' = nReqs + 1
             /\ last'.method = "DELETE" /\ last'.header = id
             /\ last'.status = 200]_vars

\* C6 witness: an exchange of a registered session was aborted and the session
\* is still registered.
C6_Witness ==
    /\ last.aborted /\ last.pc = "done" /\ last.known
    /\ last.header \in DOMAIN transports

\* The price ids of an item list.
PriceIdsOf(items) == {items[k].priceId : k \in 1..Len(items)}

\* The sum of max(1, floor(q)) over the occurrences of priceId in items.
RECURSIVE SanitizedSum(_, _)
SanitizedSum(items, priceId) ==
    IF items = <<>> THEN 0
    ELSE (IF Head(items).priceId = priceId
          THEN Max(1, Floor(Head(items).quantity)) ELSE 0)
         + SanitizedSum(Tail(items), priceId)

\* C7: for every non-empty item list, the line items getCheckoutSession submits
\* carry exactly the distinct priceIds of the input, each once, each with the
\* sum of max(1, floor(q)) over its occurrences as its quantity.
C7_LineItemsAreTheMergedInput ==
    (tcall.entry = "getCheckoutSession" /\ tcall.items # <<>> /\ gatewayLog # <<>>) =>
        LET submitted == gatewayLog[Len(gatewayLog)] IN
        /\ {submitted[k].price : k \in 1..Len(submitted)} = PriceIdsOf(tcall.items)
        /\ Len(submitted) = Cardinality(PriceIdsOf(tcall.items))
        /\ \A k \in 1..Len(submitted) :
            submitted[k].quantity =
                JSNumber(SanitizedSum(tcall.items, submitted[k].price))

\* C8: a buy_products call with an empty items list is rejected by the input
\* validation before the handler runs: no aggregation, no gateway call, no mock
\* checkout, whatever the configuration.
C8_EmptyItemsRejected ==
    (tcall.entry = "buy_products" /\ tcall.items = <<>>) =>
        /\ tcall.pc = "returned"
        /\ tresult.kind = "validationError" /\ tresult.isError
        /\ tresult.structuredContent = EmptyMap
        /\ ran = NothingRan
        /\ gatewayLog = <<>>

\* C8 witness: an empty call was answered under a live configuration.
C8_Witness ==
    /\ tcall.entry = "buy_products" /\ tcall.items = <<>> /\ tcall.pc = "returned"
    /\ stripeKey = "sk_test_51Abc"

\* An item the claim says must be refused.
RefusedItem(item) ==
    \/ item.priceId = ""
    \/ ~(item.quantity.num % item.quantity.den = 0
         /\ item.quantity.num >= item.quantity.den)

\* C9: a buy_products call is rejected, before anything runs, whenever an item
\* has an empty priceId or a quantity that is not an integer >= 1, and is
\* accepted only when no item is such.
C9_BadItemsRejected ==
    (tcall.entry = "buy_products"
        /\ \E k \in 1..Len(tcall.items) : RefusedItem(tcall.items[k])) =>
        /\ tresult.kind = "validationError"
        /\ ran = NothingRan
        /\ gatewayLog = <<>>

\* C10: with no credential configured, every valid buy_products call returns a
\* result without the error flag whose structured content holds a non-empty
\* checkoutSessionId and checkoutSessionUrl, and the gateway is never invoked.
C10_MockNeverCallsGateway ==
    ~Truthy(stripeKey) =>
        /\ gatewayLog = <<>>
        /\ ran.aggregate = 0
        /\ tcall.pc # "awaitGateway"
        /\ (tcall.entry = "buy_products" /\ tcall.pc = "returned"
                /\ tresult.kind # "validationError") =>
            /\ ~tresult.isError
            /\ DOMAIN tresult.structuredContent =
                    {"checkoutSessionId", "checkoutSessionUrl"}
            /\ Len(tresult.structuredContent.checkoutSessionId) > 0
            /\ Len(tresult.structuredContent.checkoutSessionUrl) > 0
            /\ ran.mock = 1

\* C10 witness: a valid call was answered with a mock checkout while the
\* credential was the empty string.
C10_Witness ==
    /\ stripeKey = ""
    /\ tcall.entry = "buy_products" /\ tcall.pc = "returned"
    /\ Len(tcall.items) = 2
    /\ ~tresult.isError /\ ran.mock = 1

\* C11: whenever the provider client is null (no credential, or a credential
\* without the sk_test_/sk_live_ prefix), list_products answers with the fixed
\* fallback products and never with the "not configured" error.
C11_NotConfiguredFallsBack ==
    (tcall.entry = "list_products" /\ tcall.pc = "returned" /\ stripe = "null")
        => /\ tresult = ProductsResult(getMockProducts)
           /\ tresult.text # NotConfigured.text

\* C12: in live mode a failure of the gateway adapter during buy_products
\* (the provider call rejects, or the adapter is not configured) is answered
\* with a result whose error flag is set, whose structured content is empty
\* and whose message is the fixed text; nothing is thrown to the caller, and
\* the gateway is attempted at most once per invocation (never when the
\* adapter is not configured).
C12_GatewayFailureIsAnErrorResult ==
    (tcall.entry = "buy_products" /\ ~USE_MOCK)
        => /\ Len(gatewayLog) <= 1
           /\ stripe = "null" => gatewayLog = <<>>
           /\ ran.threw <= 1
           /\ (tcall.pc = "returned" /\ ran.threw = 1)
                => /\ tresult.kind = "result"
                   /\ tresult.isError
                   /\ tresult.structuredContent = EmptyMap
                   /\ tresult.text = "Checkout failed. Try again."

C12_Witness ==
    /\ tcall.entry = "buy_products" /\ tcall.pc = "returned"
    /\ stripe = "Stripe" /\ ran.threw = 1 /\ Len(gatewayLog) = 1
    /\ tresult.isError

\* C19: the line items handed to the gateway are in the order of the first
\* occurrence of each price id in the input, for every sequence of string
\* price ids (decimal-digit strings included).
C19_LineItemsInFirstOccurrenceOrder ==
    (tcall.entry = "getCheckoutSession" /\ Len(gatewayLog) = 1)
        => LET prices == [k \in 1..Len(gatewayLog[1]) |-> gatewayLog[1][k].price]
               first(p) == CHOOSE k \in 1..Len(tcall.items) :
                              /\ tcall.items[k].priceId = p
                              /\ \A j \in 1..(k - 1) : tcall.items[j].priceId # p
           IN  \A i, j \in 1..Len(prices) :
                    (i < j /\ prices[i] \in PriceIdsOf(tcall.items)
                           /\ prices[j] \in PriceIdsOf(tcall.items))
                        => first(prices[i]) < first(prices[j])
\* C15: whatever the interleaving of a POST or GET request with a termination
\* of the session whose id it carries, the request is either handed to that
\* session's transport while it is registered and not closed, or it is
\* answered as not found (400, under no session); it is never handed to a
\* transport that is closed or no longer registered.
C15_LiveSessionOrNotFound ==
    \A r \in Exchanges :
        (r.method \in {"POST", "GET"} /\ (r.known \/ r.wasClosed)) =>
            /\ r.handedTo \notin {"closed", "removed"}
            /\ \/ /\ r.handedTo = "registered"
                  /\ r.transport = registeredAt[r.header]
               \/ r.pc = "connecting"
               \/ /\ r.pc = "done"
                  /\ r.status \in {400, 404}
                  /\ r.session = Undefined
\* The quantity the widget shows for a product: quantities[priceId] ?? 0.
Qty(priceId) == OrZero(GetProp(quantities, priceId)).num

\* C13: whatever adjusts, submits and tool results have happened, every
\* quantity is an integer >= 0; each adjust(priceId, delta) sets the quantity
\* of priceId to max(0, previous + delta) and leaves the other quantities as
\* they were; and adjust can be taken in every status, a submission in flight
\* or a ready checkout link included.
C13_AdjustClampsAtZero ==
    /\ [](\A priceId \in DOMAIN quantities.val :
            /\ quantities.val[priceId].type = "number"
            /\ quantities.val[priceId].num \in Nat)
    /\ [][\A priceId \in ProductIds, delta \in Deltas :
            Adjust(priceId, delta) =>
                /\ GetProp(quantities', priceId)
                        = JSNumber(Max(0, Qty(priceId) + delta))
                /\ \A other \in ProductIds \ {priceId} :
                        GetProp(quantities', other) = GetProp(quantities, other)]_vars
    /\ [](\A priceId \in ProductIds :
            /\ ENABLED Adjust(priceId, -1)
            /\ Qty(priceId) < MaxQuantity => ENABLED Adjust(priceId, 1))

\* C13 witness: a submission is in flight and the quantities are no longer
\* the ones that were sent, one of them back at 0.
C13_Witness ==
    /\ isSubmitting /\ Len(pending) = 1
    /\ CheckoutItems(quantities) # pending[1]
    /\ \E priceId \in ProductIds : HasOwn(quantities, priceId) /\ Qty(priceId) = 0
\* C14: once checkoutUrl is set, a submit only hands that URL to openExternal:
\* it starts no buy_products call and changes none of quantities, status,
\* checkoutUrl and isSubmitting.
C14_ReadyLinkIsOnlyOpened ==
    [][(Truthy(checkoutUrl) /\ Submit) =>
            /\ opened' = Append(opened, checkoutUrl)
            /\ UNCHANGED <<quantities, status, checkoutUrl, isSubmitting, pending>>]_vars

\* C14 witness: the link is ready and has been opened twice.
C14_Witness ==
    /\ Truthy(checkoutUrl)
    /\ opened = <<checkoutUrl, checkoutUrl>>
    /\ pending = <<>>

FailureMessages ==
    {"No checkout URL returned. Please try again.",
     "Failed to start checkout. Please try again."}

\* C17: every submission that was started ends, given that its tool call
\* settles: isSubmitting becomes false again, and at that moment either the
\* link is set to the URL of the result and the status says it is ready, or
\* (the call rejected, or its result had no URL) the status is a failure
\* message and checkoutUrl is still null.
C17_SubmissionEnds ==
    /\ isSubmitting ~> ~isSubmitting
    /\ [][(isSubmitting /\ ~isSubmitting') =>
            \/ /\ checkoutUrl' \in {session.url : session \in Sessions}
               /\ status' = "Checkout ready! Click below to complete your purchase."
            \/ /\ checkoutUrl' = Null
               /\ status' \in FailureMessages]_vars

\* C17 witness: a submission has ended with the link ready.
C17_Witness ==
    /\ ~isSubmitting /\ pending = <<>>
    /\ Truthy(checkoutUrl)
    /\ status = "Checkout ready! Click below to complete your purchase."

\* C18: a submit while no quantity is above 0 and no link exists only sets
\* the status message: no buy_products call is started, isSubmitting is left
\* alone, quantities and checkoutUrl are unchanged.
C18_NothingSelectedOnlySetsStatus ==
    [][(/\ ~Truthy(checkoutUrl)
        /\ \A priceId \in DOMAIN quantities.val : ~Positive(quantities.val[priceId])
        /\ Submit) =>
            /\ status' = "Select at least one product to continue."
            /\ UNCHANGED <<quantities, checkoutUrl, isSubmitting, pending, opened>>]_vars

\* C18 witness: the message is shown, nothing was sent, no link exists.
C18_Witness ==
    /\ status = "Select at least one product to continue."
    /\ ~isSubmitting /\ pending = <<>> /\ checkoutUrl = Null
    /\ \E priceId \in ProductIds : HasOwn(quantities, priceId) /\ Qty(priceId) = 0

\* C20: every item list the widget sends to buy_products passes the input
\* schema of the server: it is not empty, its price ids are pairwise
\* distinct, and every quantity is an integer >= 1.
C20_SentItemsPassTheSchema ==
    \A k \in 1..Len(pending) :
        LET items == pending[k] IN
        /\ \A i \in 1..Len(items) : items[i].quantity.type = "number"
        /\ ValidItems(WireItems(items))
        /\ \A i, j \in 1..Len(items) :
                items[i].priceId = items[j].priceId => i = j

\* C20 witness: one item was sent while the quantities hold two products,
\* one of them at 0.
C20_Witness ==
    /\ Len(pending) = 1 /\ Len(pending[1]) = 1
    /\ Len(quantities.keys) = 2
    /\ CheckoutItems(quantities) = pending[1]
\* The plain sum of the quantities of the occurrences of priceId in items
\* (of all items, when priceId is Undefined); the quantities are integers.
RECURSIVE PlainSum(_, _)
PlainSum(items, priceId) ==
    IF items = <<>> THEN 0
    ELSE (IF priceId \in {Undefined, Head(items).priceId}
          THEN Head(items).quantity.num \div Head(items).quantity.den ELSE 0)
         + PlainSum(Tail(items), priceId)

\* The sum of the quantities of a list of line items, each a number.
RECURSIVE LineTotal(_)
LineTotal(lines) ==
    IF lines = <<>> THEN 0
    ELSE Head(lines).quantity.num + LineTotal(Tail(lines))

\* C21: for every buy_products input that passes the input schema, the
\* sanitization of each quantity is the identity; the quantities of the line
\* items sent to the gateway add up to the quantities of the input, and each
\* price id is sent with the plain sum of its input quantities.
C21_ValidatedQuantitiesArePlainSums ==
    (tcall.entry = "buy_products" /\ ValidItems(tcall.items) /\ Len(gatewayLog) = 1) =>
        LET submitted == gatewayLog[1] IN
        /\ \A k \in 1..Len(tcall.items) :
            Rat(SafeQuantity(tcall.items[k].quantity), 1) = tcall.items[k].quantity
        /\ \A k \in 1..Len(submitted) : submitted[k].quantity.type = "number"
        /\ LineTotal(submitted) = PlainSum(tcall.items, Undefined)
        /\ \A priceId \in PriceIdsOf(tcall.items) :
            \E k \in 1..Len(submitted) :
                /\ submitted[k].price = priceId
                /\ submitted[k].quantity = JSNumber(PlainSum(tcall.items, priceId))
====
